---- MODULE Spec2Model ----
(***************************************************************************)
(* Model of the toby synthesizer core: the ADSR envelope                   *)
(* (src/src/envelope.rs), the voice (src/src/voice.rs), the voice          *)
(* manager and the block loop inside Toby::process (src/src/lib.rs) and    *)
(* the oscillators (src/src/oscillator/).                                  *)
(*                                                                         *)
(* Time is kept in integer units.  In the voice pool the unit is the       *)
(* millisecond, so the default envelope (attack 0.05 s, decay 0.001 s,     *)
(* release 1.0 s) is 50, 1 and 1000 units and 1.0 / sample_rate is         *)
(* 1000 / sample_rate units.  Levels (the f32 values returned by           *)
(* ADSR::next) are exact rationals <<numerator, denominator>>; the f32     *)
(* values of the oscillators are rationals in lowest terms.                *)
(***************************************************************************)
EXTENDS Integers, Sequences, FiniteSets, TLC

VARIABLES voices, sample_rate, dispatched, fresh, last, hist,
          env, dt, out, op, prev, trig,
          delivered, queue, next_event, samples, sample_id, trace, pc,
          engine, osc_rate, returned, carry, plain, edge, calls, call, args

poolVars == <<voices, sample_rate, dispatched, fresh, last, hist>>
envVars == <<env, dt, out, op, prev, trig>>
blockVars == <<delivered, queue, next_event, samples, sample_id, trace, pc>>
oscVars == <<engine, osc_rate, returned, carry, plain, edge, calls, call, args>>
vars == <<poolVars, envVars, blockVars, oscVars>>

----------------------------------------------------------------------------
(* Bounds of the model *)

\* samples a voice timer may count before rendering stops
MaxTicks == 2
\* note numbers 0 .. MaxNote are delivered by the host
MaxNote == 6
\* host calls (NoteOn, NoteOff, reset) made in one run of the pool
MaxEvents == 7
\* longest stage duration (in time units) of the stand-alone envelope
MaxDur == 3
\* largest 1.0 / sample_rate (in time units) of the stand-alone envelope
MaxDt == 2
\* largest value of the stand-alone envelope's timer (in time units)
MaxEnvTime == 12
\* most samples in one block handed to Toby::process
MaxBlock == 3
\* most note events the host delivers with one block
MaxQueue == 3
\* oscillator frequencies are 1 .. MaxFreq Hz
MaxFreq == 5
\* process calls made on a stand-alone variable-saw oscillator
MaxCalls == 3
\* process calls made on a stand-alone super-square or string-synth
\* oscillator, and on the oscillator engine
MaxSteps == 5
\* process calls of a hard-synced super-square oscillator
MaxSync == 6

----------------------------------------------------------------------------
(* Program constants *)

NumVoices == 6
DefaultAttack == 50
DefaultDecay == 1
DefaultRelease == 1000
DefaultStepTimer == 100
InitialFreq == 1000
MsPerSecond == 1000

DefaultSampleRate == 1

Notes == 0 .. MaxNote
Velocities == {1}
Sustains == {<<0, 1>>, <<1, 2>>, <<4, 5>>, <<1, 1>>}
Stages == {"Attack", "Decay", "Sustain", "Release", "Idle"}
Events == {"Attack", "Release"}

----------------------------------------------------------------------------
(* Exact rational arithmetic for f32 levels *)

Rat(n, d) == <<n, d>>
RZero == Rat(0, 1)
ROne == Rat(1, 1)
RAdd(a, b) == Rat(a[1] * b[2] + b[1] * a[2], a[2] * b[2])
RSub(a, b) == Rat(a[1] * b[2] - b[1] * a[2], a[2] * b[2])
RMul(a, b) == Rat(a[1] * b[1], a[2] * b[2])
REq(a, b) == a[1] * b[2] = b[1] * a[2]
RLeq(a, b) == a[1] * b[2] <= b[1] * a[2]
RLt(a, b) == a[1] * b[2] < b[1] * a[2]

\* f32 values of the oscillators: a rational in lowest terms with a positive
\* denominator, or one of the three values a division by zero produces
Inf == <<1, 0>>
NegInf == <<-1, 0>>
NaN == <<0, 0>>

Abs(n) == IF n < 0 THEN -n ELSE n
Sign(n) == IF n < 0 THEN -1 ELSE IF n > 0 THEN 1 ELSE 0

RECURSIVE GCD(_, _)
GCD(a, b) == IF b = 0 THEN a ELSE GCD(b, a % b)

Norm(a) ==
    IF a[2] = 0 THEN <<Sign(a[1]), 0>>
    ELSE LET g == GCD(Abs(a[1]), Abs(a[2])) IN
         <<Sign(a[2]) * (a[1] \div g), Abs(a[2]) \div g>>

Q(n, d) == Norm(<<n, d>>)
QAdd(a, b) ==
    IF a = NaN \/ b = NaN THEN NaN
    ELSE IF a[2] = 0 /\ b[2] = 0 THEN (IF a = b THEN a ELSE NaN)
    ELSE IF a[2] = 0 THEN a
    ELSE IF b[2] = 0 THEN b
    ELSE Norm(RAdd(a, b))
QNeg(a) == <<-a[1], a[2]>>
QSub(a, b) == QAdd(a, QNeg(b))
QMul(a, b) == Norm(RMul(a, b))
QInv(a) == IF a[1] < 0 THEN <<-a[2], -a[1]>> ELSE <<a[2], a[1]>>
QDiv(a, b) == QMul(a, QInv(b))
QLt(a, b) == a # NaN /\ b # NaN /\ a[1] * b[2] < b[1] * a[2]
QLeq(a, b) == a # NaN /\ b # NaN /\ a[1] * b[2] <= b[1] * a[2]
QGeq(a, b) == QLeq(b, a)

\* f32::clamp
clamp(x, lo, hi) == IF QLt(x, lo) THEN lo ELSE IF QLt(hi, x) THEN hi ELSE x

----------------------------------------------------------------------------
(* envelope.rs *)

\* fn interpolate(value, from, to) = from * (1.0 - value) + to * value
interpolate(value, lo, hi) ==
    RAdd(RMul(lo, RSub(ROne, value)), RMul(hi, value))

\* impl Default for ADSR
ADSR_default ==
    [attack |-> DefaultAttack, decay |-> DefaultDecay, sustain |-> Rat(4, 5),
     release |-> DefaultRelease, stage |-> "Idle",
     step_timer |-> DefaultStepTimer, timer |-> 0]

\* ADSR::reset
ADSR_reset(e) ==
    [e EXCEPT !.stage = "Idle", !.step_timer = e.release, !.timer = 0]

\* ADSR::trigger
ADSR_trigger(e, event) ==
    [e EXCEPT !.step_timer = 0, !.timer = 0,
              !.stage = IF event = "Attack" THEN "Attack" ELSE "Release"]

\* RampArm that leaves step_timer as it is when the stage is complete
RampArmKeep(e, d, duration, nextStage, doneLevel, lo, hi) ==
    IF e.step_timer >= duration
    THEN [env |-> [e EXCEPT !.stage = nextStage], out |-> doneLevel]
    ELSE [env |-> [e EXCEPT !.step_timer = @ + d],
          out |-> interpolate(Rat(e.step_timer + d, duration), lo, hi)]

\* RampArm that completes the stage only once step_timer exceeds its duration
RampArmLate(e, d, duration, nextStage, doneLevel, lo, hi) ==
    IF e.step_timer > duration
    THEN [env |-> [e EXCEPT !.stage = nextStage, !.step_timer = 0],
          out |-> doneLevel]
    ELSE [env |-> [e EXCEPT !.step_timer = @ + d],
          out |-> interpolate(Rat(e.step_timer + d, duration), lo, hi)]

\* one ramp arm of ADSR::next: Attack, Decay and Release have the same shape
RampArm(e, d, duration, nextStage, doneLevel, lo, hi) ==
    IF e.step_timer >= duration
    THEN [env |-> [e EXCEPT !.stage = nextStage, !.step_timer = 0],
          out |-> doneLevel]
    ELSE [env |-> [e EXCEPT !.step_timer = @ + d],
          out |-> interpolate(Rat(e.step_timer + d, duration), lo, hi)]

\* ADSR_next whose Idle arm returns the sustain level, as the Sustain arm
ADSR_nextIdleSounds(e0, d) ==
    LET e == [e0 EXCEPT !.timer = @ + d] IN
    CASE e.stage = "Attack" ->
           RampArm(e, d, e.attack, "Decay", ROne, RZero, ROne)
      [] e.stage = "Decay" ->
           RampArm(e, d, e.decay, "Sustain", e.sustain, ROne, e.sustain)
      [] e.stage = "Release" ->
           RampArm(e, d, e.release, "Idle", RZero, e.sustain, RZero)
      [] OTHER -> [env |-> e, out |-> e.sustain]

\* ADSR_next whose Sustain arm runs down like a Release
ADSR_nextSustainEnds(e0, d) ==
    LET e == [e0 EXCEPT !.timer = @ + d] IN
    CASE e.stage = "Attack" ->
           RampArm(e, d, e.attack, "Decay", ROne, RZero, ROne)
      [] e.stage = "Decay" ->
           RampArm(e, d, e.decay, "Sustain", e.sustain, ROne, e.sustain)
      [] e.stage \in {"Sustain", "Release"} ->
           RampArm(e, d, e.release, "Idle", RZero, e.sustain, RZero)
      [] e.stage = "Idle" -> [env |-> e, out |-> RZero]

\* ADSR::next; d is 1.0 / sample_rate
ADSR_next(e0, d) ==
    LET e == [e0 EXCEPT !.timer = @ + d] IN
    CASE e.stage = "Attack" ->
           RampArm(e, d, e.attack, "Decay", ROne, RZero, ROne)
      [] e.stage = "Decay" ->
           RampArm(e, d, e.decay, "Sustain", e.sustain, ROne, e.sustain)
      [] e.stage = "Sustain" -> [env |-> e, out |-> e.sustain]
      [] e.stage = "Release" ->
           RampArm(e, d, e.release, "Idle", RZero, e.sustain, RZero)
      [] e.stage = "Idle" -> [env |-> e, out |-> RZero]

\* ADSR::is_active
ADSR_is_active(e) == e.stage # "Idle"

----------------------------------------------------------------------------
(* voice.rs *)

\* nih_plug::util::midi_note_to_freq, 440 * 2^((note - 69) / 12), in mHz
MidiNoteToFreq(note) ==
    <<8176, 8662, 9177, 9723, 10301, 10913, 11562, 12250,
      12978, 13750, 14568, 15434>>[note + 1]

\* Voice::new
Voice_new ==
    [envelope |-> ADSR_default, midi_note_id |-> 0,
     midi_note_freq |-> InitialFreq, midi_velocity |-> 1]

\* Voice::is_active
Voice_is_active(v) == ADSR_is_active(v.envelope)

\* Voice_trigger that re-articulates a voice in Decay or Sustain by zeroing
\* its timers only
Voice_triggerLegato(v, note, velocity) ==
    [v EXCEPT !.midi_note_id = note,
              !.midi_note_freq = MidiNoteToFreq(note),
              !.midi_velocity = velocity,
              !.envelope = IF v.envelope.stage \in {"Decay", "Sustain"}
                           THEN [v.envelope EXCEPT !.step_timer = 0,
                                                   !.timer = 0]
                           ELSE ADSR_trigger(v.envelope, "Attack")]

\* Voice::trigger
Voice_trigger(v, note, velocity) ==
    [v EXCEPT !.midi_note_id = note,
              !.midi_note_freq = MidiNoteToFreq(note),
              !.midi_velocity = velocity,
              !.envelope = ADSR_trigger(v.envelope, "Attack")]

\* Voice::release
Voice_release(v) ==
    [v EXCEPT !.envelope = ADSR_trigger(v.envelope, "Release")]

\* the envelope part of Voice::process: self.envelope.next(sample_rate)
Voice_process(v, d) ==
    [v EXCEPT !.envelope = ADSR_next(v.envelope, d).env]

----------------------------------------------------------------------------
(* oscillator/mod.rs *)

Half == Q(1, 2)

this_blep_sample(t) == QMul(Half, QMul(t, t))

next_blep_sample(t0) ==
    LET t == QSub(ROne, t0) IN QMul(Half, QMul(t, t))

next_integrated_blep_sample(t) ==
    LET t1 == QMul(Half, t)
        t2 == QMul(t1, t1)
        t4 == QMul(t2, t2)
    IN  QSub(QAdd(QSub(Q(3, 16), t1), QMul(Q(3, 2), t2)), t4)

this_integrated_blep_sample(t) == next_integrated_blep_sample(QSub(ROne, t))

----------------------------------------------------------------------------
(* oscillator/variable_saw.rs *)

NOTCH_DEPTH == Q(1, 5)

\* impl Default for VariableSawOscillator
VariableSaw_default ==
    [phase |-> RZero, next_sample |-> RZero, previous_pw |-> Half,
     high |-> FALSE, pw |-> Half, waveshape |-> RZero]

\* the pulse-width clamp of VariableSawOscillator::prepare_block that is
\* also taken for phase deltas in [0.25, 0.5)
PwClampBelowHalf(frequency, rate) ==
    LET phase_delta == Q(frequency, rate)
    IN  [taken |-> ~QGeq(phase_delta, Half),
         lower |-> QMul(phase_delta, Q(2, 1)),
         upper |-> QSub(ROne, QMul(Q(2, 1), phase_delta))]

\* the pulse-width clamp of VariableSawOscillator::prepare_block: whether
\* the call reaches it, and the bounds it passes to f32::clamp
PwClamp(frequency, rate) ==
    LET phase_delta == Q(frequency, rate)
    IN  [taken |-> ~QGeq(phase_delta, Q(1, 4)),
         lower |-> QMul(phase_delta, Q(2, 1)),
         upper |-> QSub(ROne, QMul(Q(2, 1), phase_delta))]

\* VariableSawOscillator::prepare_block
VariableSaw_prepare_block(o, pw, waveshape, frequency, rate) ==
    LET c == PwClamp(frequency, rate)
        p == IF c.taken THEN clamp(pw, c.lower, c.upper) ELSE Half
    IN  [o EXCEPT !.pw = p, !.waveshape = waveshape]

\* VariableSawOscillator::compute_naive_sample
compute_naive_sample(o, slope_up, slope_down, triangle_amount, notch_amount) ==
    LET notch_saw == IF QLt(o.phase, o.pw) THEN o.phase
                     ELSE QAdd(ROne, NOTCH_DEPTH)
        triangle == IF QLt(o.phase, o.pw) THEN QMul(o.phase, slope_up)
                    ELSE QSub(ROne, QMul(QSub(o.phase, o.pw), slope_down))
    IN  QAdd(QMul(notch_saw, notch_amount), QMul(triangle, triangle_amount))

\* VariableSawOscillator::process.  Besides the oscillator and the returned
\* sample the result names the edge the call crossed and the value
\* next_sample held after the edge branch (the correction owed to the
\* following sample) and the naive sample computed after it.
VariableSaw_process(o0, frequency, rate) ==
    LET phase_delta == Q(frequency, rate)
        triangle_amount == o0.waveshape
        notch_amount == QSub(ROne, o0.waveshape)
        slope_up == QDiv(ROne, o0.pw)
        slope_down == QDiv(ROne, QSub(ROne, o0.pw))
        phase == QAdd(o0.phase, phase_delta)
        triangle_step ==
            QMul(QMul(QAdd(slope_up, slope_down), phase_delta),
                 triangle_amount)
        rise == ~o0.high /\ QGeq(phase, o0.pw)
        wrap == ~rise /\ QGeq(phase, ROne)
        notch == IF rise
                 THEN QMul(QSub(QAdd(NOTCH_DEPTH, ROne), o0.pw), notch_amount)
                 ELSE QMul(QAdd(NOTCH_DEPTH, ROne), notch_amount)
        phase1 == IF wrap THEN QSub(phase, ROne) ELSE phase
        t == IF rise
             THEN QDiv(QSub(phase, o0.pw),
                       QAdd(QSub(o0.previous_pw, o0.pw), phase_delta))
             ELSE QDiv(phase1, phase_delta)
        this_sample ==
            IF rise \/ wrap
            THEN QSub(QAdd(o0.next_sample, QMul(notch, this_blep_sample(t))),
                      QMul(triangle_step, this_integrated_blep_sample(t)))
            ELSE o0.next_sample
        owed ==
            IF rise \/ wrap
            THEN QSub(QAdd(RZero, QMul(notch, next_blep_sample(t))),
                      QMul(triangle_step, next_integrated_blep_sample(t)))
            ELSE RZero
        o1 == [o0 EXCEPT !.phase = phase1,
                         !.high = IF rise THEN TRUE
                                  ELSE IF wrap THEN FALSE ELSE @]
        naive == compute_naive_sample(o1, slope_up, slope_down,
                                      triangle_amount, notch_amount)
    IN  [osc |-> [o1 EXCEPT !.next_sample = naive, !.previous_pw = o0.pw],
         out |-> QDiv(QSub(QMul(Q(2, 1), this_sample), ROne),
                      QAdd(ROne, NOTCH_DEPTH)),
         edge |-> IF rise THEN "rise" ELSE IF wrap THEN "wrap" ELSE "none",
         owed |-> owed,
         naive |-> naive]

----------------------------------------------------------------------------
(* oscillator/super_square.rs, oscillator/string_synth.rs,
   oscillator/engine.rs *)

\* nih_plug's Smoother with SmoothingStyle::Linear(ms).  At the sample rates
\* of the model the ramp lasts round(sample_rate * ms / 1000) = 0 samples,
\* so the smoother is its target: set_target stores it and next returns it.
Smoother_new == RZero
Smoother_set_target(s, sr, target) == target
Smoother_next(s) == s

\* the arguments of the last prepare call and its local slave_frequency
NoArgs == [shape |-> RZero, frequency |-> 0, slave_frequency |-> RZero]

\* impl Default for SuperSquareOscillator
SuperSquare_default ==
    [master_phase |-> RZero, slave_phase |-> RZero, next_sample |-> RZero,
     high |-> FALSE,
     master_frequency |-> Smoother_new, slave_frequency |-> Smoother_new]

MAX_FREQUENCY == Q(1, 4)
MIN_FREQUENCY == Q(1, 1000000)

\* slave_frequency with a slope of 64 above shape 0.5
slave_frequency64(shape, frequency) ==
    IF QLt(shape, Half)
    THEN QMul(frequency, QAdd(Q(51, 100), QMul(Q(98, 100), shape)))
    ELSE QMul(frequency,
              QAdd(ROne, QMul(QMul(Q(64, 1), QSub(shape, Half)),
                              QSub(shape, Half))))

\* SuperSquareOscillator::prepare: the local slave_frequency
slave_frequency(shape, frequency) ==
    IF QLt(shape, Half)
    THEN QMul(frequency, QAdd(Q(51, 100), QMul(Q(98, 100), shape)))
    ELSE QMul(frequency,
              QAdd(ROne, QMul(QMul(Q(16, 1), QSub(shape, Half)),
                              QSub(shape, Half))))

\* SuperSquareOscillator::prepare
SuperSquare_prepare(o, shape, frequency, sr) ==
    [o EXCEPT
       !.master_frequency =
           Smoother_set_target(@, sr,
               clamp(frequency, MIN_FREQUENCY, MAX_FREQUENCY)),
       !.slave_frequency =
           Smoother_set_target(@, sr,
               clamp(slave_frequency(shape, frequency),
                     MIN_FREQUENCY, MAX_FREQUENCY))]

\* the while loop of SuperSquareOscillator::process; st0 holds slave_phase,
\* high, this_sample and next_sample, and rounds counts the times the loop
\* body was entered
RECURSIVE TransitionLoop(_, _)
TransitionLoop(st0, sf) ==
    LET st == [st0 EXCEPT !.rounds = @ + 1] IN
    IF ~st.high /\ QLt(st.slave_phase, Half) THEN st
    ELSE LET t1 == QDiv(QSub(st.slave_phase, Half), sf)
             up == IF st.high THEN st
                   ELSE [st EXCEPT
                           !.this_sample = QAdd(@, this_blep_sample(t1)),
                           !.next_sample = QAdd(@, next_blep_sample(t1)),
                           !.high = TRUE]
             t2 == QDiv(QSub(up.slave_phase, ROne), sf)
         IN  IF QLt(up.slave_phase, ROne) THEN up
             ELSE TransitionLoop(
                    [up EXCEPT
                       !.slave_phase = QSub(@, ROne),
                       !.this_sample = QSub(@, this_blep_sample(t2)),
                       !.next_sample = QSub(@, next_blep_sample(t2)),
                       !.high = FALSE], sf)

\* SuperSquareOscillator::process that leaves `high` as the edge loop left
\* it after a reset
SuperSquare_processKeepHigh(o) ==
    LET mf == Smoother_next(o.master_frequency)
        sf == Smoother_next(o.slave_frequency)
        mp == QAdd(o.master_phase, mf)
        reset == QGeq(mp, ROne)
        master_phase == IF reset THEN QSub(mp, ROne) ELSE mp
        reset_time == IF reset THEN QDiv(master_phase, mf) ELSE RZero
        at_reset0 == QAdd(o.slave_phase, QMul(QSub(ROne, reset_time), sf))
        at_reset == IF QGeq(at_reset0, ROne) THEN QSub(at_reset0, ROne)
                    ELSE at_reset0
        transition_during_reset ==
            reset /\ (QGeq(at_reset0, ROne)
                        \/ (~o.high /\ QGeq(at_reset, Half)))
        value == IF QLt(at_reset, Half) THEN RZero ELSE ROne
        st0 == [slave_phase |-> QAdd(o.slave_phase, sf),
                high |-> o.high,
                rounds |-> 0,
                this_sample |->
                    IF reset
                    THEN QSub(o.next_sample,
                              QMul(value, this_blep_sample(reset_time)))
                    ELSE o.next_sample,
                next_sample |->
                    IF reset
                    THEN QSub(RZero, QMul(value, next_blep_sample(reset_time)))
                    ELSE RZero]
        st1 == IF transition_during_reset \/ ~reset
               THEN TransitionLoop(st0, sf) ELSE st0
        slave_phase == IF reset THEN QMul(reset_time, sf) ELSE st1.slave_phase
    IN  [osc |-> [o EXCEPT
                    !.master_phase = master_phase,
                    !.slave_phase = slave_phase,
                    !.high = st1.high,
                    !.next_sample =
                        QAdd(st1.next_sample,
                             IF QLt(slave_phase, Half) THEN RZero ELSE ROne)],
         out |-> QSub(QMul(Q(2, 1), st1.this_sample), ROne),
         rounds |-> st1.rounds]

\* SuperSquareOscillator::process
SuperSquare_process(o) ==
    LET mf == Smoother_next(o.master_frequency)
        sf == Smoother_next(o.slave_frequency)
        mp == QAdd(o.master_phase, mf)
        reset == QGeq(mp, ROne)
        master_phase == IF reset THEN QSub(mp, ROne) ELSE mp
        reset_time == IF reset THEN QDiv(master_phase, mf) ELSE RZero
        at_reset0 == QAdd(o.slave_phase, QMul(QSub(ROne, reset_time), sf))
        at_reset == IF QGeq(at_reset0, ROne) THEN QSub(at_reset0, ROne)
                    ELSE at_reset0
        transition_during_reset ==
            reset /\ (QGeq(at_reset0, ROne)
                        \/ (~o.high /\ QGeq(at_reset, Half)))
        value == IF QLt(at_reset, Half) THEN RZero ELSE ROne
        st0 == [slave_phase |-> QAdd(o.slave_phase, sf),
                high |-> o.high,
                rounds |-> 0,
                this_sample |->
                    IF reset
                    THEN QSub(o.next_sample,
                              QMul(value, this_blep_sample(reset_time)))
                    ELSE o.next_sample,
                next_sample |->
                    IF reset
                    THEN QSub(RZero, QMul(value, next_blep_sample(reset_time)))
                    ELSE RZero]
        st1 == IF transition_during_reset \/ ~reset
               THEN TransitionLoop(st0, sf) ELSE st0
        slave_phase == IF reset THEN QMul(reset_time, sf) ELSE st1.slave_phase
    IN  [osc |-> [o EXCEPT
                    !.master_phase = master_phase,
                    !.slave_phase = slave_phase,
                    !.high = IF reset THEN FALSE ELSE st1.high,
                    !.next_sample =
                        QAdd(st1.next_sample,
                             IF QLt(slave_phase, Half) THEN RZero ELSE ROne)],
         out |-> QSub(QMul(Q(2, 1), st1.this_sample), ROne),
         rounds |-> st1.rounds]

\* impl Default for StringSynthOscillator
StringSynth_default ==
    [phase |-> RZero, segment |-> 0, next_sample |-> RZero,
     frequency |-> Smoother_new,
     saw_8_gain |-> Smoother_new, saw_4_gain |-> Smoother_new,
     saw_2_gain |-> Smoother_new, saw_1_gain |-> Smoother_new]

\* string_synth.rs: REGISTRATION_TABLE
REGISTRATION_TABLE ==
    <<
      <<Q(10, 10), Q(0, 10), Q(0, 10), Q(0, 10), Q(0, 10), Q(0, 10), Q(0, 10)>>,
      <<Q(5, 10), Q(0, 10), Q(5, 10), Q(0, 10), Q(0, 10), Q(0, 10), Q(0, 10)>>,
      <<Q(4, 10), Q(0, 10), Q(2, 10), Q(0, 10), Q(4, 10), Q(0, 10), Q(0, 10)>>,
      <<Q(3, 10), Q(0, 10), Q(0, 10), Q(3, 10), Q(0, 10), Q(4, 10), Q(0, 10)>>,
      <<Q(3, 10), Q(0, 10), Q(0, 10), Q(0, 10), Q(0, 10), Q(7, 10), Q(0, 10)>>,
      <<Q(2, 10), Q(0, 10), Q(0, 10), Q(2, 10), Q(0, 10), Q(6, 10), Q(0, 10)>>,
      <<Q(0, 10), Q(2, 10), Q(1, 10), Q(0, 10), Q(2, 10), Q(5, 10), Q(0, 10)>>,
      <<Q(0, 10), Q(3, 10), Q(0, 10), Q(3, 10), Q(0, 10), Q(4, 10), Q(0, 10)>>,
      <<Q(0, 10), Q(4, 10), Q(0, 10), Q(3, 10), Q(0, 10), Q(3, 10), Q(0, 10)>>,
      <<Q(0, 10), Q(5, 10), Q(0, 10), Q(5, 10), Q(0, 10), Q(0, 10), Q(0, 10)>>,
      <<Q(0, 10), Q(10, 10), Q(0, 10), Q(0, 10), Q(0, 10), Q(0, 10), Q(0, 10)>>
    >>

\* the octave-shift loop of StringSynthOscillator::prepare_block
RECURSIVE OctaveShift(_, _)
OctaveShift(phase_delta, shift) ==
    IF QLt(Half, phase_delta)
    THEN OctaveShift(QMul(phase_delta, Half), shift + 2)
    ELSE [phase_delta |-> phase_delta, shift |-> shift]

\* registration[shift..7].copy_from_slice(&unshifted_registration[0..7 - shift])
ShiftRegistration(unshifted, shift) ==
    [i \in 1 .. 7 |-> IF i <= shift THEN RZero ELSE unshifted[i - shift]]

\* the ranges registration[shift..7] and unshifted_registration[0..7 - shift]
\* of StringSynthOscillator::prepare_block, as <<start, end>>
RegistrationSlices(shift) ==
    [registration |-> <<shift, 7>>, unshifted |-> <<0, 7 - shift>>]

\* StringSynthOscillator::prepare_block that sets the frequency target even
\* after a shift of 8
StringSynth_prepare_blockNoSkip(o, unshifted, gain, frequency, sr) ==
    LET s == OctaveShift(QDiv(frequency, sr), 0)
        r == ShiftRegistration(unshifted, s.shift)
        two == Q(2, 1)
    IN  IF s.shift >= 8
        THEN [o EXCEPT !.frequency =
                 Smoother_set_target(@, sr,
                     clamp(s.phase_delta, MIN_FREQUENCY, MAX_FREQUENCY))]
        ELSE [o EXCEPT
               !.frequency =
                   Smoother_set_target(@, sr,
                       clamp(s.phase_delta, MIN_FREQUENCY, MAX_FREQUENCY)),
               !.saw_8_gain =
                   Smoother_set_target(@, sr,
                       QMul(gain, QAdd(r[1], QMul(two, r[2])))),
               !.saw_4_gain =
                   Smoother_set_target(@, sr,
                       QMul(gain, QAdd(QSub(r[3], r[2]), QMul(two, r[4])))),
               !.saw_2_gain =
                   Smoother_set_target(@, sr,
                       QMul(gain, QAdd(QSub(r[5], r[4]), QMul(two, r[6])))),
               !.saw_1_gain =
                   Smoother_set_target(@, sr, QMul(gain, QSub(r[7], r[6])))]

\* StringSynthOscillator::prepare_block
StringSynth_prepare_block(o, unshifted, gain, frequency, sr) ==
    LET s == OctaveShift(QDiv(frequency, sr), 0)
        r == ShiftRegistration(unshifted, s.shift)
        two == Q(2, 1)
    IN  IF s.shift >= 8 THEN o
        ELSE [o EXCEPT
               !.frequency =
                   Smoother_set_target(@, sr,
                       clamp(s.phase_delta, MIN_FREQUENCY, MAX_FREQUENCY)),
               !.saw_8_gain =
                   Smoother_set_target(@, sr,
                       QMul(gain, QAdd(r[1], QMul(two, r[2])))),
               !.saw_4_gain =
                   Smoother_set_target(@, sr,
                       QMul(gain, QAdd(QSub(r[3], r[2]), QMul(two, r[4])))),
               !.saw_2_gain =
                   Smoother_set_target(@, sr,
                       QMul(gain, QAdd(QSub(r[5], r[4]), QMul(two, r[6])))),
               !.saw_1_gain =
                   Smoother_set_target(@, sr, QMul(gain, QSub(r[7], r[6])))]

\* `x as i32` of a finite f32 that is not negative
Trunc(x) == x[1] \div x[2]

\* segment & mask for the masks 1, 3, 4, 6 and 7 of a segment in 0 .. 15
BitAnd(segment, mask) ==
    CASE mask = 1 -> segment % 2
      [] mask = 3 -> segment % 4
      [] mask = 4 -> ((segment \div 4) % 2) * 4
      [] mask = 6 -> ((segment \div 2) % 4) * 2
      [] mask = 7 -> segment % 8

\* StringSynthOscillator::process
StringSynth_process(o) ==
    LET f == Smoother_next(o.frequency)
        saw_8_gain == Smoother_next(o.saw_8_gain)
        saw_4_gain == Smoother_next(o.saw_4_gain)
        saw_2_gain == Smoother_next(o.saw_2_gain)
        saw_1_gain == Smoother_next(o.saw_1_gain)
        phase0 == QAdd(o.phase, f)
        segment0 == Trunc(phase0)
        edge0 == segment0 # o.segment
        wrap == edge0 /\ segment0 = 8
        phase == IF wrap THEN QSub(phase0, Q(8, 1)) ELSE phase0
        next_segment == IF wrap THEN segment0 - 8 ELSE segment0
        d8 == IF wrap THEN QNeg(saw_8_gain) ELSE RZero
        d4 == IF BitAnd(next_segment, 3) = 0 THEN QSub(d8, saw_4_gain)
              ELSE d8
        d2 == IF BitAnd(next_segment, 1) = 0 THEN QSub(d4, saw_2_gain)
              ELSE d4
        discontinuity == QSub(d2, saw_1_gain)
        corrected == edge0 /\ discontinuity # RZero
        t == QDiv(QSub(phase, Q(next_segment, 1)), f)
        this_sample ==
            IF corrected
            THEN QAdd(o.next_sample, QMul(discontinuity, this_blep_sample(t)))
            ELSE o.next_sample
        n0 == IF corrected THEN QMul(discontinuity, next_blep_sample(t))
              ELSE RZero
        n8 == QAdd(n0, QMul(QMul(QSub(phase, Q(4, 1)), saw_8_gain), Q(1, 8)))
        n4 == QAdd(n8,
                   QMul(QMul(QSub(QSub(phase, Q(BitAnd(next_segment, 4), 1)),
                                  Q(2, 1)), saw_4_gain), Q(1, 4)))
        n2 == QAdd(n4,
                   QMul(QMul(QSub(QSub(phase, Q(BitAnd(next_segment, 6), 1)),
                                  ROne), saw_2_gain), Half))
        n1 == QAdd(n2,
                   QMul(QSub(phase, Q(BitAnd(next_segment, 7), 1)),
                        saw_1_gain))
    IN  [osc |-> [o EXCEPT !.phase = phase, !.segment = next_segment,
                           !.next_sample = n1],
         out |-> QMul(Q(2, 1), this_sample)]

\* OscillatorEngine::new
OscillatorEngine_new ==
    [super_square |-> SuperSquare_default,
     variable_saw |-> VariableSaw_default,
     string_synth |-> StringSynth_default,
     selected |-> "SuperSquare"]

OscillatorTypes == {"SuperSquare", "VariableSaw", "StringSynth"}

\* the registration-table index OscillatorEngine::prepare_block computes
\* from morph
registration_index(morph) ==
    Trunc(QMul(morph, Q(Len(REGISTRATION_TABLE) - 1, 1)))

\* the argument of (saw_pw * 1.1).clamp(0.005, 1.0)
saw_pw(morph) ==
    QMul(IF QLt(morph, Half) THEN QAdd(morph, Half)
         ELSE QSub(ROne, QMul(QSub(morph, Half), Q(2, 1))),
         Q(11, 10))

\* OscillatorEngine::prepare_block; frequency is in Hz
OscillatorEngine_prepare_block(e, shape, morph, frequency, sr) ==
    CASE e.selected = "SuperSquare" ->
           [e EXCEPT !.super_square =
               SuperSquare_prepare(@, shape, Q(frequency, 1), Q(sr, 1))]
      [] e.selected = "VariableSaw" ->
           [e EXCEPT !.variable_saw =
               VariableSaw_prepare_block(@,
                   clamp(saw_pw(morph), Q(5, 1000), ROne),
                   clamp(QSub(Q(10, 1), QMul(Q(21, 1), shape)), RZero, ROne),
                   frequency, sr)]
      [] e.selected = "StringSynth" ->
           [e EXCEPT !.string_synth =
               StringSynth_prepare_block(@,
                   REGISTRATION_TABLE[registration_index(morph) + 1], shape,
                   Q(frequency, 1), Q(sr, 1))]

\* the engine after the variant held in the field has processed a sample,
\* and the sample
Forwarded(e, field, r) ==
    [engine |-> [e EXCEPT ![field] = r.osc], out |-> r.out]

\* OscillatorEngine::process that runs every variant and returns the sample
\* of the selected one
OscillatorEngine_processAll(e, frequency, sr) ==
    LET sq == SuperSquare_process(e.super_square)
        saw == VariableSaw_process(e.variable_saw, frequency, sr)
        str == StringSynth_process(e.string_synth)
    IN  [engine |-> [e EXCEPT !.super_square = sq.osc,
                              !.variable_saw = saw.osc,
                              !.string_synth = str.osc],
         out |-> CASE e.selected = "SuperSquare" -> sq.out
                   [] e.selected = "VariableSaw" -> saw.out
                   [] e.selected = "StringSynth" -> str.out]

\* OscillatorEngine::process
OscillatorEngine_process(e, frequency, sr) ==
    CASE e.selected = "SuperSquare" ->
           Forwarded(e, "super_square", SuperSquare_process(e.super_square))
      [] e.selected = "VariableSaw" ->
           Forwarded(e, "variable_saw",
                     VariableSaw_process(e.variable_saw, frequency, sr))
      [] e.selected = "StringSynth" ->
           Forwarded(e, "string_synth", StringSynth_process(e.string_synth))

----------------------------------------------------------------------------
(* lib.rs: the voice manager in Toby::process *)

Pool == 1 .. NumVoices

\* 1.0 / sample_rate in time units
SamplePeriod(rate) == MsPerSecond \div rate

\* the loops "for voice in self.voices.iter_mut() { if test { ...; break } }":
\* position of the first voice, from i on in pool order, whose test holds;
\* 0 if there is none
RECURSIVE FirstFrom(_, _)
FirstFrom(test, i) ==
    IF i > NumVoices THEN 0
    ELSE IF test[i] THEN i
    ELSE FirstFrom(test, i + 1)

\* Iterator::max_by over the pool, comparing envelope.timer: the fold keeps
\* the candidate only when it compares Greater than the next element
RECURSIVE MaxByTimer(_, _, _)
MaxByTimer(vs, best, i) ==
    IF i > NumVoices THEN best
    ELSE MaxByTimer(vs,
                    IF vs[best].envelope.timer > vs[i].envelope.timer
                    THEN best ELSE i,
                    i + 1)

\* Allocate with the passes for releasing and for inactive voices exchanged
AllocateReleaseFirst(vs, note) ==
    LET SameNote == [i \in Pool |-> vs[i].midi_note_id = note]
        Inactive == [i \in Pool |-> ~Voice_is_active(vs[i])]
        Releasing == [i \in Pool |-> vs[i].envelope.stage = "Release"]
        p1 == FirstFrom(SameNote, 1)
        p2 == FirstFrom(Inactive, 1)
        p3 == FirstFrom(Releasing, 1)
    IN  IF p1 # 0 THEN [victim |-> p1, pass |-> 1]
        ELSE IF p3 # 0 THEN [victim |-> p3, pass |-> 3]
        ELSE IF p2 # 0 THEN [victim |-> p2, pass |-> 2]
        ELSE [victim |-> MaxByTimer(vs, 1, 2), pass |-> 4]

\* Allocate that looks for an inactive voice before a voice holding the note
AllocateInactiveFirst(vs, note) ==
    LET SameNote == [i \in Pool |-> vs[i].midi_note_id = note]
        Inactive == [i \in Pool |-> ~Voice_is_active(vs[i])]
        Releasing == [i \in Pool |-> vs[i].envelope.stage = "Release"]
        p1 == FirstFrom(SameNote, 1)
        p2 == FirstFrom(Inactive, 1)
        p3 == FirstFrom(Releasing, 1)
    IN  IF p2 # 0 THEN [victim |-> p2, pass |-> 2]
        ELSE IF p1 # 0 THEN [victim |-> p1, pass |-> 1]
        ELSE IF p3 # 0 THEN [victim |-> p3, pass |-> 3]
        ELSE [victim |-> MaxByTimer(vs, 1, 2), pass |-> 4]

\* the four passes of the NoteOn arm: the voice that is triggered and the
\* pass that found it
Allocate(vs, note) ==
    LET SameNote == [i \in Pool |-> vs[i].midi_note_id = note]
        Inactive == [i \in Pool |-> ~Voice_is_active(vs[i])]
        Releasing == [i \in Pool |-> vs[i].envelope.stage = "Release"]
        p1 == FirstFrom(SameNote, 1)
        p2 == FirstFrom(Inactive, 1)
        p3 == FirstFrom(Releasing, 1)
    IN  IF p1 # 0 THEN [victim |-> p1, pass |-> 1]
        ELSE IF p2 # 0 THEN [victim |-> p2, pass |-> 2]
        ELSE IF p3 # 0 THEN [victim |-> p3, pass |-> 3]
        ELSE [victim |-> MaxByTimer(vs, 1, 2), pass |-> 4]

\* the voices after the NoteOn arm
NoteOnVoices(vs, note, velocity) ==
    LET a == Allocate(vs, note) IN
    [vs EXCEPT ![a.victim] = Voice_trigger(@, note, velocity)]

\* the voice released by the NoteOff arm; 0 if the event is dropped
Released(vs, note) ==
    FirstFrom([i \in Pool |-> vs[i].midi_note_id = note], 1)

\* NoteOffVoices without the break: every voice holding the note is released
NoteOffVoicesAll(vs, note) ==
    [i \in Pool |-> IF vs[i].midi_note_id = note
                    THEN Voice_release(vs[i]) ELSE vs[i]]

\* the voices after the NoteOff arm
NoteOffVoices(vs, note) ==
    LET r == Released(vs, note) IN
    IF r = 0 THEN vs ELSE [vs EXCEPT ![r] = Voice_release(@)]

\* the voices after one sample has been rendered
RenderVoices(vs, rate) ==
    [i \in Pool |-> Voice_process(vs[i], SamplePeriod(rate))]

\* Plugin::reset
ResetVoices(vs) ==
    [i \in Pool |-> [vs[i] EXCEPT !.envelope = ADSR_reset(@)]]

\* Option::None of the event held by Toby::process
None == 0

NoEvent == [op |-> "none", note |-> 0, victim |-> 0, pass |-> 0]
Untracked == [pure |-> FALSE, notes |-> {}, victims |-> <<>>]
Fresh == [pure |-> TRUE, notes |-> {}, victims |-> <<>>]

\* history of a run that so far consists of NoteOns with pairwise distinct
\* notes and of rendered samples only: the notes and the triggered voices
Track(h, note, victim) ==
    IF h.pure /\ note \notin h.notes /\ Len(h.victims) <= NumVoices
    THEN [pure |-> TRUE, notes |-> h.notes \cup {note},
          victims |-> Append(h.victims, victim)]
    ELSE Untracked

\* the host takes one more call from its budget
Take ==
    /\ dispatched < MaxEvents
    /\ dispatched' = dispatched + 1

\* The code compares note numbers for equality only, so the host names a
\* note it has not used before with the least unused number above 0.
Deliver(note) ==
    /\ note <= fresh
    /\ fresh' = (IF note = fresh THEN fresh + 1 ELSE fresh)

NoteOn(note, velocity) ==
    /\ Take
    /\ Deliver(note)
    /\ voices' = NoteOnVoices(voices, note, velocity)
    /\ last' = [op |-> "NoteOn", note |-> note,
                victim |-> Allocate(voices, note).victim,
                pass |-> Allocate(voices, note).pass]
    /\ hist' = Track(hist, note, Allocate(voices, note).victim)
    /\ UNCHANGED sample_rate

NoteOff(note) ==
    /\ Take
    /\ note <= fresh
    /\ voices' = NoteOffVoices(voices, note)
    /\ last' = [op |-> "NoteOff", note |-> note,
                victim |-> Released(voices, note), pass |-> 0]
    /\ hist' = Untracked
    /\ UNCHANGED <<sample_rate, fresh>>

RenderSample ==
    /\ \A i \in Pool :
          voices[i].envelope.timer + SamplePeriod(sample_rate)
             <= MaxTicks * SamplePeriod(sample_rate)
    /\ voices' = RenderVoices(voices, sample_rate)
    /\ last' = [NoEvent EXCEPT !.op = "Sample"]
    /\ UNCHANGED <<sample_rate, dispatched, fresh, hist>>

PluginReset ==
    /\ Take
    /\ voices' = ResetVoices(voices)
    /\ last' = [NoEvent EXCEPT !.op = "Reset"]
    /\ hist' = Untracked
    /\ UNCHANGED <<sample_rate, fresh>>

PoolNew ==
    /\ voices = [i \in Pool |-> Voice_new]
    /\ sample_rate = DefaultSampleRate
    /\ dispatched = 0
    /\ fresh = 1
    /\ last = NoEvent
    /\ hist = Fresh

EnvNew ==
    /\ env = ADSR_default
    /\ dt = 1
    /\ out = RZero
    /\ op = "new"
    /\ prev = "Idle"
    /\ trig = "none"

\* no block is being processed
BlockNew ==
    /\ delivered = <<>>
    /\ queue = 0
    /\ next_event = None
    /\ samples = 0
    /\ sample_id = 0
    /\ trace = <<>>
    /\ pc = "idle"

\* an oscillator engine nothing has been called on
OscNew ==
    /\ engine = OscillatorEngine_new
    /\ osc_rate = DefaultSampleRate
    /\ returned = RZero
    /\ carry = RZero
    /\ plain = RZero
    /\ edge = "none"
    /\ calls = 0
    /\ call = "new"
    /\ args = NoArgs

Init == PoolNew /\ EnvNew /\ BlockNew /\ OscNew

DispatchNoteOn ==
    \E note \in Notes, velocity \in Velocities :
        NoteOn(note, velocity) /\ UNCHANGED <<envVars, blockVars, oscVars>>

DispatchNoteOff ==
    \E note \in Notes : NoteOff(note) /\ UNCHANGED <<envVars, blockVars, oscVars>>

Render == RenderSample /\ UNCHANGED <<envVars, blockVars, oscVars>>

Reset == PluginReset /\ UNCHANGED <<envVars, blockVars, oscVars>>

Next == DispatchNoteOn \/ DispatchNoteOff \/ Render \/ Reset

Spec == Init /\ [][Next]_vars

----------------------------------------------------------------------------
(* One envelope on its own, with every parameter drawn from a small set *)

Durations == 1 .. MaxDur
Periods == 1 .. MaxDt

InitEnv ==
    /\ PoolNew
    /\ BlockNew
    /\ OscNew
    /\ \E a \in Durations, d \in Durations, r \in Durations, s \in Sustains :
          env = [ADSR_default EXCEPT !.attack = a, !.decay = d,
                                     !.release = r, !.sustain = s]
    /\ dt \in Periods
    /\ out = RZero
    /\ op = "new"
    /\ prev = "Idle"
    /\ trig = "none"

EnvTrigger ==
    \E event \in Events :
        /\ env' = ADSR_trigger(env, event)
        /\ op' = "trigger"
        /\ prev' = env.stage
        /\ trig' = event
        /\ UNCHANGED <<dt, out, poolVars, blockVars, oscVars>>

EnvNext ==
    /\ env.timer + dt <= MaxEnvTime
    /\ env' = ADSR_next(env, dt).env
    /\ out' = ADSR_next(env, dt).out
    /\ op' = "next"
    /\ prev' = env.stage
    /\ UNCHANGED <<dt, trig, poolVars, blockVars, oscVars>>

EnvReset ==
    /\ env' = ADSR_reset(env)
    /\ op' = "reset"
    /\ prev' = env.stage
    /\ trig' = "none"
    /\ UNCHANGED <<dt, out, poolVars, blockVars, oscVars>>

NextEnv == EnvTrigger \/ EnvNext \/ EnvReset

SpecEnv == InitEnv /\ [][NextEnv]_vars

----------------------------------------------------------------------------
(* One call of Toby::process over a block of samples *)

\* the note events of the model: two notes, one of which is also released
BlockEvents ==
    {[kind |-> "NoteOn", note |-> 1], [kind |-> "NoteOff", note |-> 1],
     [kind |-> "NoteOn", note |-> 2]}

\* sample offsets the host may attach to an event
Timings == 0 .. MaxBlock

\* the lists of events a host may deliver with a block: at most MaxQueue
\* events in non-decreasing order of timing
Deliveries ==
    {d \in UNION {[1 .. n -> BlockEvents \X Timings] : n \in 0 .. MaxQueue} :
        \A i \in 1 .. Len(d) - 1 : d[i][2] <= d[i + 1][2]}

timing(i) == delivered[i][2]

\* ProcessContext::next_event: the index of the event handed out, or None
ContextNextEvent == IF queue < Len(delivered) THEN queue + 1 ELSE None

\* the events the host has handed out after ProcessContext::next_event
ContextAdvance == IF queue < Len(delivered) THEN queue + 1 ELSE queue

\* the event loop dispatches an event one sample ahead of its timing
DueAhead(t, id) == t <= id + 1

\* the test of the event loop: the event is due at sample id
Due(t, id) == ~(t > id)

\* the voices after the match on the event
DispatchVoices(vs, event) ==
    IF event.kind = "NoteOn" THEN NoteOnVoices(vs, event.note, 1)
    ELSE NoteOffVoices(vs, event.note)

InitBlock ==
    /\ PoolNew
    /\ EnvNew
    /\ OscNew
    /\ delivered \in Deliveries
    /\ samples \in 0 .. MaxBlock
    /\ queue = 0
    /\ next_event = None
    /\ sample_id = 0
    /\ trace = <<>>
    /\ pc = "idle"

\* entry of Toby::process up to the sample loop
ProcessBegin ==
    /\ pc = "idle"
    /\ next_event' = ContextNextEvent
    /\ queue' = ContextAdvance
    /\ sample_id' = 0
    /\ pc' = "loop"
    /\ UNCHANGED <<delivered, samples, trace, poolVars, envVars, oscVars>>

\* one turn of the while-let loop that does not break
DispatchEvent ==
    /\ pc = "loop"
    /\ sample_id < samples
    /\ next_event # None
    /\ Due(timing(next_event), sample_id)
    /\ voices' = DispatchVoices(voices, delivered[next_event][1])
    /\ trace' = Append(trace, <<"event", next_event>>)
    /\ next_event' = ContextNextEvent
    /\ queue' = ContextAdvance
    /\ UNCHANGED <<delivered, samples, sample_id, pc, envVars, oscVars,
                   sample_rate, dispatched, fresh, last, hist>>

\* the event loop is left and the sample is rendered by every voice
RenderFrame ==
    /\ pc = "loop"
    /\ sample_id < samples
    /\ ~(next_event # None /\ Due(timing(next_event), sample_id))
    /\ voices' = RenderVoices(voices, sample_rate)
    /\ trace' = Append(trace, <<"sample", sample_id>>)
    /\ sample_id' = sample_id + 1
    /\ UNCHANGED <<delivered, samples, queue, next_event, pc, envVars, oscVars,
                   sample_rate, dispatched, fresh, last, hist>>

\* the sample loop is exhausted and Toby::process returns
ProcessEnd ==
    /\ pc = "loop"
    /\ sample_id = samples
    /\ pc' = "done"
    /\ UNCHANGED <<delivered, samples, queue, next_event, sample_id, trace,
                   poolVars, envVars, oscVars>>

NextBlock == ProcessBegin \/ DispatchEvent \/ RenderFrame \/ ProcessEnd

SpecBlock == InitBlock /\ [][NextBlock]_vars

----------------------------------------------------------------------------
(* One VariableSawOscillator on its own *)

Frequencies == 1 .. MaxFreq
Rates == {DefaultSampleRate, 8}
Pws == {Q(1, 4), Q(7, 8)}
Waveshapes == {RZero, Half}

\* the state left by a run in which nothing was called on the oscillators
OscIdle ==
    /\ returned = RZero
    /\ carry = RZero
    /\ plain = RZero
    /\ edge = "none"
    /\ calls = 0
    /\ call = "new"
    /\ args = NoArgs

InitSaw ==
    /\ PoolNew
    /\ EnvNew
    /\ BlockNew
    /\ engine = OscillatorEngine_new
    /\ osc_rate \in Rates
    /\ OscIdle

SawPrepareBlock ==
    \E pw \in Pws, waveshape \in Waveshapes, frequency \in Frequencies :
        /\ engine' = [engine EXCEPT !.variable_saw =
              VariableSaw_prepare_block(@, pw, waveshape, frequency, osc_rate)]
        /\ call' = "prepare_block"
        /\ UNCHANGED <<osc_rate, returned, carry, plain, edge, calls, args,
                       poolVars, envVars, blockVars>>

SawProcess ==
    \E frequency \in Frequencies :
        LET r == VariableSaw_process(engine.variable_saw, frequency, osc_rate) IN
        /\ calls < MaxCalls
        /\ calls' = calls + 1
        /\ engine' = [engine EXCEPT !.variable_saw = r.osc]
        /\ returned' = r.out
        /\ carry' = r.owed
        /\ plain' = r.naive
        /\ edge' = r.edge
        /\ call' = "process"
        /\ UNCHANGED <<osc_rate, args, poolVars, envVars, blockVars>>

NextSaw == SawPrepareBlock \/ SawProcess

SpecSaw == InitSaw /\ [][NextSaw]_vars

----------------------------------------------------------------------------
(* One VariableSawOscillator played at one frequency: every block prepares
   it and then processes samples with the frequency of the voice *)

\* the frequency of the voice
NoteArgs(frequency) ==
    [shape |-> RZero, frequency |-> frequency, slave_frequency |-> RZero]

InitEdges ==
    /\ PoolNew
    /\ EnvNew
    /\ BlockNew
    /\ engine = OscillatorEngine_new
    /\ osc_rate \in Rates
    /\ returned = RZero
    /\ carry = RZero
    /\ plain = RZero
    /\ edge = "none"
    /\ calls = 0
    /\ call = "new"
    /\ args \in {NoteArgs(frequency) : frequency \in Frequencies}

\* the block begins: Voice::prepare_block with the pulse width and the
\* waveshape of the block
EdgesPrepareBlock ==
    \E pw \in Pws, waveshape \in Waveshapes :
        /\ engine' = [engine EXCEPT !.variable_saw =
              VariableSaw_prepare_block(@, pw, waveshape,
                                        args.frequency, osc_rate)]
        /\ call' = "prepare_block"
        /\ UNCHANGED <<osc_rate, returned, carry, plain, edge, calls, args,
                       poolVars, envVars, blockVars>>

\* a sample of the block
EdgesProcess ==
    LET r == VariableSaw_process(engine.variable_saw,
                                 args.frequency, osc_rate) IN
    /\ call # "new"
    /\ calls < MaxCalls
    /\ calls' = calls + 1
    /\ engine' = [engine EXCEPT !.variable_saw = r.osc]
    /\ returned' = r.out
    /\ carry' = r.owed
    /\ plain' = r.naive
    /\ edge' = r.edge
    /\ call' = "process"
    /\ UNCHANGED <<osc_rate, args, poolVars, envVars, blockVars>>

NextEdges == EdgesPrepareBlock \/ EdgesProcess

SpecEdges == InitEdges /\ [][NextEdges]_vars

----------------------------------------------------------------------------
(* One SuperSquareOscillator on its own *)

Shapes == {RZero, Q(1, 4), Q(2, 5), Half, Q(3, 4), ROne}

InitSquare ==
    /\ PoolNew
    /\ EnvNew
    /\ BlockNew
    /\ engine = OscillatorEngine_new
    /\ osc_rate \in Rates
    /\ OscIdle

SquarePrepare ==
    \E shape \in Shapes, frequency \in Frequencies :
        /\ engine' = [engine EXCEPT !.super_square =
              SuperSquare_prepare(@, shape, Q(frequency, 1), Q(osc_rate, 1))]
        /\ args' = [shape |-> shape, frequency |-> frequency,
                    slave_frequency |->
                        slave_frequency(shape, Q(frequency, 1))]
        /\ call' = "prepare"
        /\ UNCHANGED <<osc_rate, returned, carry, plain, edge, calls,
                       poolVars, envVars, blockVars>>

SquareProcess ==
    LET r == SuperSquare_process(engine.super_square) IN
    /\ calls < MaxSteps
    /\ calls' = calls + 1
    /\ engine' = [engine EXCEPT !.super_square = r.osc]
    /\ returned' = r.out
    /\ call' = "process"
    /\ UNCHANGED <<osc_rate, carry, plain, edge, args,
                   poolVars, envVars, blockVars>>

NextSquare == SquarePrepare \/ SquareProcess

SpecSquare == InitSquare /\ [][NextSquare]_vars

----------------------------------------------------------------------------
(* One StringSynthOscillator on its own *)

Gains == {Half}
Registrations == {3, 11}

InitString ==
    /\ PoolNew
    /\ EnvNew
    /\ BlockNew
    /\ engine = OscillatorEngine_new
    /\ osc_rate \in Rates
    /\ OscIdle

StringPrepareBlock ==
    \E index \in Registrations, gain \in Gains, frequency \in Frequencies :
        LET s == OctaveShift(QDiv(Q(frequency, 1), Q(osc_rate, 1)), 0) IN
        /\ engine' = [engine EXCEPT !.string_synth =
              StringSynth_prepare_block(@, REGISTRATION_TABLE[index], gain,
                                        Q(frequency, 1), Q(osc_rate, 1))]
        /\ args' = [unshifted |-> REGISTRATION_TABLE[index], gain |-> gain,
                    frequency |-> frequency,
                    phase_delta |-> s.phase_delta, shift |-> s.shift]
        /\ call' = "prepare_block"
        /\ UNCHANGED <<osc_rate, returned, carry, plain, edge, calls,
                       poolVars, envVars, blockVars>>

StringProcess ==
    LET r == StringSynth_process(engine.string_synth) IN
    /\ calls < MaxSteps
    /\ calls' = calls + 1
    /\ engine' = [engine EXCEPT !.string_synth = r.osc]
    /\ returned' = r.out
    /\ call' = "process"
    /\ UNCHANGED <<osc_rate, carry, plain, edge, args,
                   poolVars, envVars, blockVars>>

NextString == StringPrepareBlock \/ StringProcess

SpecString == InitString /\ [][NextString]_vars

----------------------------------------------------------------------------
(* The oscillator engine of one voice *)

EngineShapes == {Half}
Morphs == {Half}
EngineFrequencies == {1, MaxFreq}

InitEngine ==
    /\ PoolNew
    /\ EnvNew
    /\ BlockNew
    /\ engine = OscillatorEngine_new
    /\ osc_rate \in Rates
    /\ OscIdle

\* Voice::prepare_block: the variant is selected and prepared
EnginePrepareBlock ==
    \E type \in OscillatorTypes, shape \in EngineShapes, morph \in Morphs,
       frequency \in EngineFrequencies :
        /\ engine' = OscillatorEngine_prepare_block(
                         [engine EXCEPT !.selected = type],
                         shape, morph, frequency, osc_rate)
        /\ call' = "prepare_block"
        /\ UNCHANGED <<osc_rate, returned, carry, plain, edge, calls, args,
                       poolVars, envVars, blockVars>>

\* the engine is replaced by the processed one and the sample is returned
Return(r) ==
    /\ engine' = r.engine
    /\ returned' = r.out

\* the call of OscillatorEngine::process in Voice::process
EngineProcess ==
    \E frequency \in EngineFrequencies :
        /\ calls < MaxCalls
        /\ calls' = calls + 1
        /\ Return(OscillatorEngine_process(engine, frequency, osc_rate))
        /\ call' = "process"
        /\ UNCHANGED <<osc_rate, carry, plain, edge, args,
                       poolVars, envVars, blockVars>>

NextEngine == EnginePrepareBlock \/ EngineProcess

SpecEngine == InitEngine /\ [][NextEngine]_vars

----------------------------------------------------------------------------
(* One SuperSquareOscillator driven at phase increments below 0.25 *)

\* shapes with the slave ratios 3/4, 1 and 2
SyncShapes == {Q(12, 49), Half, Q(3, 4)}
SyncFrequencies == {Q(1, 8), Q(3, 16), Q(1, 4)}

InitSync ==
    /\ PoolNew
    /\ EnvNew
    /\ BlockNew
    /\ engine = OscillatorEngine_new
    /\ osc_rate = DefaultSampleRate
    /\ OscIdle

SyncPrepare ==
    \E shape \in SyncShapes, frequency \in SyncFrequencies :
        /\ engine' = [engine EXCEPT !.super_square =
              SuperSquare_prepare(@, shape, frequency, Q(osc_rate, 1))]
        /\ call' = "prepare"
        /\ UNCHANGED <<osc_rate, returned, carry, plain, edge, calls, args,
                       poolVars, envVars, blockVars>>

SyncProcess ==
    LET r == SuperSquare_process(engine.super_square) IN
    /\ calls < MaxSync
    /\ calls' = calls + 1
    /\ engine' = [engine EXCEPT !.super_square = r.osc]
    /\ returned' = r.out
    /\ call' = "process"
    /\ UNCHANGED <<osc_rate, carry, plain, edge, args,
                   poolVars, envVars, blockVars>>

NextSync == SyncPrepare \/ SyncProcess

SpecSync == InitSync /\ [][NextSync]_vars

----------------------------------------------------------------------------
(* OscillatorEngine::prepare_block over the whole range of the controls *)

ControlShapes == {RZero, ROne}
ControlMorphs == {RZero, Half, ROne}

InitControls ==
    /\ PoolNew
    /\ EnvNew
    /\ BlockNew
    /\ engine = OscillatorEngine_new
    /\ osc_rate \in Rates
    /\ OscIdle

\* Voice::prepare_block with the controls of the block
ControlsPrepareBlock ==
    \E type \in OscillatorTypes, shape \in ControlShapes,
       morph \in ControlMorphs, frequency \in Frequencies :
        /\ engine' = OscillatorEngine_prepare_block(
                         [engine EXCEPT !.selected = type],
                         shape, morph, frequency, osc_rate)
        /\ args' = [shape |-> shape, morph |-> morph,
                    frequency |-> frequency]
        /\ call' = "prepare_block"
        /\ UNCHANGED <<osc_rate, returned, carry, plain, edge, calls,
                       poolVars, envVars, blockVars>>

NextControls == ControlsPrepareBlock

SpecControls == InitControls /\ [][NextControls]_vars

----------------------------------------------------------------------------
(* The oscillator of one voice inside Toby::process: a block begins with
   Voice::prepare_block, then NoteOn events and samples follow *)

\* the frequency of the voice, and whether a NoteOn has triggered the voice
\* since the block began
VoiceArgs(frequency, triggered) ==
    [frequency |-> frequency, triggered |-> triggered]

InitPitch ==
    /\ PoolNew
    /\ EnvNew
    /\ BlockNew
    /\ engine = OscillatorEngine_new
    /\ osc_rate \in Rates \ {DefaultSampleRate}
    /\ returned = RZero
    /\ carry = RZero
    /\ plain = RZero
    /\ edge = "none"
    /\ calls = 0
    /\ call = "new"
    /\ args \in {VoiceArgs(frequency, FALSE) : frequency \in EngineFrequencies}

\* Toby::process begins a block: Voice::prepare_block
PitchPrepareBlock ==
    \E type \in OscillatorTypes, shape \in EngineShapes, morph \in Morphs :
        /\ engine' = OscillatorEngine_prepare_block(
                         [engine EXCEPT !.selected = type],
                         shape, morph, args.frequency, osc_rate)
        /\ args' = VoiceArgs(args.frequency, FALSE)
        /\ call' = "prepare_block"
        /\ UNCHANGED <<osc_rate, returned, carry, plain, edge, calls,
                       poolVars, envVars, blockVars>>

\* a NoteOn of the block reaches the voice: Voice::trigger
PitchNoteOn ==
    \E frequency \in EngineFrequencies :
        /\ call # "new"
        /\ args' = VoiceArgs(frequency, TRUE)
        /\ call' = "trigger"
        /\ UNCHANGED <<engine, osc_rate, returned, carry, plain, edge, calls,
                       poolVars, envVars, blockVars>>

\* a sample of the block: Voice::process
PitchProcess ==
    /\ call # "new"
    /\ calls < MaxCalls
    /\ calls' = calls + 1
    /\ Return(OscillatorEngine_process(engine, args.frequency, osc_rate))
    /\ call' = "process"
    /\ UNCHANGED <<osc_rate, carry, plain, edge, args,
                   poolVars, envVars, blockVars>>

NextPitch == PitchPrepareBlock \/ PitchNoteOn \/ PitchProcess

SpecPitch == InitPitch /\ [][NextPitch]_vars

----------------------------------------------------------------------------
(* Vocabulary of the properties: the pool before an event *)

Holders(note) == {i \in Pool : voices[i].midi_note_id = note}
InactiveVoices == {i \in Pool : voices[i].envelope.stage = "Idle"}
ReleasingVoices == {i \in Pool : voices[i].envelope.stage = "Release"}
OldestVoices ==
    {i \in Pool : \A j \in Pool :
        voices[i].envelope.timer >= voices[j].envelope.timer}
First(S) == CHOOSE i \in S : \A j \in S : i <= j
AttackStarted(v, note) ==
    /\ v.midi_note_id = note
    /\ v.envelope.stage = "Attack"
    /\ v.envelope.timer = 0

----------------------------------------------------------------------------
(* Properties of the voice manager, checked under Spec *)

\* C1: every NoteOn triggers the voice chosen by strict priority: the first
\* voice holding the note, else the first inactive voice, else the first
\* voice in Release, else a voice with the maximum envelope timer.
C1_StrictPriority ==
    [][last'.op = "NoteOn" =>
         LET n == last'.note
             w == last'.victim
         IN  /\ w \in Pool
             /\ AttackStarted(voices'[w], n)
             /\ IF Holders(n) # {} THEN w = First(Holders(n))
                ELSE IF InactiveVoices # {} THEN w = First(InactiveVoices)
                ELSE IF ReleasingVoices # {} THEN w = First(ReleasingVoices)
                ELSE w \in OldestVoices]_vars

\* a NoteOn has stolen the oldest voice of a full pool after samples were
\* rendered
C1_Witness ==
    /\ last.op = "NoteOn"
    /\ last.pass = 4
    /\ AttackStarted(voices[last.victim], last.note)
    /\ \E i \in Pool : voices[i].envelope.timer > 0

\* C2: a NoteOn for a note that a voice holds leaves the stage of a voice in
\* Decay or Sustain unchanged and zeroes its timer; a voice in Attack or
\* Release ends in Attack with timer 0.
C2_LegatoRetrigger ==
    [][(last'.op = "NoteOn" /\ Holders(last'.note) # {}) =>
         LET w == First(Holders(last'.note))
             before == voices[w].envelope.stage
         IN  /\ before \in {"Decay", "Sustain"} =>
                  /\ voices'[w].envelope.stage = before
                  /\ voices'[w].envelope.timer = 0
             /\ before \in {"Attack", "Release"} =>
                  /\ voices'[w].envelope.stage = "Attack"
                  /\ voices'[w].envelope.timer = 0]_vars

\* C3: when a NoteOn reaches the oldest-voice rule, the stolen voice is the
\* first in pool order among the voices that share the maximum timer.
C3_FirstOfTied ==
    [][(/\ last'.op = "NoteOn"
        /\ Holders(last'.note) = {}
        /\ InactiveVoices = {}
        /\ ReleasingVoices = {}) =>
         last'.victim = First(OldestVoices)]_vars

\* C4: after 7 NoteOns with pairwise distinct notes on a new pool, with no
\* NoteOff and any number of samples in between, the 7th NoteOn has been
\* given the voice of the 1st.
C4_SeventhStealsFirst ==
    (hist.pure /\ Len(hist.victims) = NumVoices + 1) =>
        hist.victims[NumVoices + 1] = hist.victims[1]

\* C5: a NoteOff releases exactly the first voice holding the note (stage
\* Release, timers 0) and changes no other voice; with no holder the event
\* is dropped and no voice changes.
C5_NoteOffPolicy ==
    [][last'.op = "NoteOff" =>
         LET n == last'.note IN
         IF Holders(n) = {}
         THEN voices' = voices /\ last'.victim = 0
         ELSE LET r == First(Holders(n)) IN
              /\ last'.victim = r
              /\ voices'[r].envelope.stage = "Release"
              /\ voices'[r].envelope.timer = 0
              /\ voices'[r].envelope.step_timer = 0
              /\ voices'[r].midi_note_id = n
              /\ voices'[r].midi_velocity = voices[r].midi_velocity
              /\ \A i \in Pool \ {r} : voices'[i] = voices[i]]_vars

\* a NoteOff has released a voice while another voice keeps sounding
C5_Witness ==
    /\ last.op = "NoteOff"
    /\ last.victim # 0
    /\ voices[last.victim].envelope.stage = "Release"
    /\ \E i \in Pool \ {last.victim} :
          voices[i].envelope.stage \in {"Attack", "Decay"}

\* C6: after a NoteOn exactly one voice has been triggered: it holds the
\* note, is in Attack with timer 0, and the note, stage and timers of the
\* five other voices are as before.
C6_ExactlyOneTriggered ==
    [][last'.op = "NoteOn" =>
         \E w \in Pool :
            /\ AttackStarted(voices'[w], last'.note)
            /\ voices'[w].envelope.step_timer = 0
            /\ \A i \in Pool \ {w} :
                  /\ voices'[i].midi_note_id = voices[i].midi_note_id
                  /\ voices'[i].envelope = voices[i].envelope]_vars

\* a NoteOn has taken a releasing voice of a pool with no inactive voice
C6_Witness ==
    /\ last.op = "NoteOn"
    /\ last.pass = 3
    /\ voices[last.victim].midi_note_id = last.note
    /\ voices[last.victim].envelope.stage = "Attack"
    /\ \A i \in Pool : Voice_is_active(voices[i])

----------------------------------------------------------------------------
(* Properties of the envelope, checked under SpecEnv *)

\* C7: every value returned by ADSR::next lies in [0, 1].
C7_OutputInRange ==
    op = "next" => RLeq(RZero, out) /\ RLeq(out, ROne)

\* C8: during Attack the value 1.0 is returned by the call that switches to
\* Decay and every other Attack output is below 1.0; during Decay the value
\* sustain is returned by the call that switches to Sustain and by no other.
C8_CompletionOnce ==
    /\ (op = "next" /\ prev = "Attack") =>
          IF env.stage = "Decay" THEN REq(out, ROne) ELSE RLt(out, ROne)
    /\ (op = "next" /\ prev = "Decay") =>
          IF env.stage = "Sustain" THEN REq(out, env.sustain)
          ELSE ~REq(out, env.sustain)

\* C9: is_active() is false exactly in Idle; a next() in Idle returns 0 and
\* stays in Idle; only trigger() takes the envelope out of Idle.
C9_IdleQuiescent ==
    [][/\ ADSR_is_active(env) <=> env.stage # "Idle"
       /\ env.stage = "Idle" =>
            /\ op' = "next" => (REq(out', RZero) /\ env'.stage = "Idle")
            /\ env'.stage # "Idle" => op' = "trigger"]_vars

\* a next() call in Idle, after a Release that ran to its end
C9_Witness ==
    /\ op = "next"
    /\ prev = "Idle"
    /\ env.stage = "Idle"
    /\ env.step_timer = 0
    /\ REq(out, RZero)

\* C10 as stated: after every operation that changes the stage, timer is 0.
C10_TimerZeroOnTransition ==
    [][env'.stage # env.stage => env'.timer = 0]_vars

\* C10 as amended: a stage change made by trigger() or inside next() leaves
\* step_timer at 0, reset() leaves step_timer at release; timer is zeroed by
\* trigger() and reset() only and keeps counting across the transitions
\* made inside next().
C10_StepTimerOnTransition ==
    [][env'.stage # env.stage =>
         /\ op' \in {"trigger", "next"} => env'.step_timer = 0
         /\ op' = "reset" => env'.step_timer = env.release
         /\ op' \in {"trigger", "reset"} => env'.timer = 0
         /\ op' = "next" =>
              (env'.timer = env.timer + dt /\ env'.timer > 0)]_vars

\* next() has just switched Decay -> Sustain: step_timer is 0, timer is not
C10_Witness ==
    /\ op = "next"
    /\ prev = "Decay"
    /\ env.stage = "Sustain"
    /\ env.step_timer = 0
    /\ env.timer > 0

\* least number of periods p that cover the duration a
CeilDiv(a, p) == (a + p - 1) \div p

\* next() calls made since the last trigger() or reset()
CallsSinceTrigger == env.timer \div dt

C15_ReleaseFromEntryLevel ==
    [][(/\ trig = "Release"
        /\ op = "trigger"
        /\ prev = "Attack"
        /\ RLt(out, env.sustain)
        /\ op' = "next") => RLeq(out', out)]_vars


\* samples rendered before position p of the trace
SamplesBefore(p) == Cardinality({q \in 1 .. p - 1 : trace[q][1] = "sample"})

\* positions of the trace at which event i was dispatched
Dispatches(i) == {p \in DOMAIN trace : trace[p] = <<"event", i>>}

\* C13: within one process() call over N samples every delivered event
\* with offset k < N is dispatched exactly once, in delivery order, after
\* sample k-1 and before sample k was rendered, so that the envelope stage
\* it sets is the one sample k is rendered from; no event is dispatched
\* before the sample of its offset.
C13_SampleAccurateDispatch ==
    /\ \A p \in DOMAIN trace : trace[p][1] = "event" =>
          /\ SamplesBefore(p) = timing(trace[p][2])
          /\ \A q \in 1 .. p - 1 :
                trace[q][1] = "event" => trace[q][2] < trace[p][2]
    /\ \A p \in DOMAIN trace : trace[p][1] = "sample" =>
          /\ trace[p][2] = SamplesBefore(p)
          /\ \A i \in DOMAIN delivered : timing(i) <= trace[p][2] =>
                \E q \in 1 .. p - 1 : trace[q] = <<"event", i>>
    /\ \A i \in DOMAIN delivered : Cardinality(Dispatches(i)) <= 1
    /\ pc = "done" =>
          \A i \in DOMAIN delivered :
              timing(i) < samples => Cardinality(Dispatches(i)) = 1
    /\ (trace # <<>> /\ trace[Len(trace)][1] = "event") =>
          LET event == delivered[trace[Len(trace)][2]][1] IN
          /\ sample_id = timing(trace[Len(trace)][2])
          /\ event.kind = "NoteOn" =>
                \E v \in Pool :
                    /\ voices[v].midi_note_id = event.note
                    /\ voices[v].envelope.stage = "Attack"
                    /\ voices[v].envelope.timer = 0

\* a block has been processed in which a NoteOn at offset 0 and an event at
\* a later offset inside the block were dispatched, and an event beyond the
\* block was left alone
C13_Witness ==
    /\ pc = "done"
    /\ Len(delivered) = 3
    /\ timing(1) = 0
    /\ delivered[1][1].kind = "NoteOn"
    /\ timing(2) > 0
    /\ timing(2) < samples
    /\ timing(3) >= samples
    /\ Dispatches(1) # {}
    /\ Dispatches(2) # {}

\* C16: when a VariableSawOscillator::process call crosses an edge, the
\* correction owed to the following sample is still contained in
\* next_sample when the call returns, together with the fresh naive sample.
C16_BlepCarryKept ==
    (call = "process" /\ edge # "none") =>
        engine.variable_saw.next_sample = QAdd(plain, carry)

\* C17: after every VariableSawOscillator::process call the phase
\* accumulator lies in [0,1), also when the frequency passed to process
\* differs from the one passed to the last prepare_block.
C17_PhaseConfined ==
    call = "process" =>
        /\ QLeq(RZero, engine.variable_saw.phase)
        /\ QLt(engine.variable_saw.phase, ROne)

\* the ratio of the slave frequency to the master frequency in the last
\* prepare call, before clamping
SlaveRatio == QDiv(args.slave_frequency, Q(args.frequency, 1))

\* C18: SuperSquareOscillator's prepare step sets the master target to
\* frequency / sample_rate clamped to [0.000001, 0.25] and the slave target
\* to the shape-scaled frequency divided by sample_rate, clamped likewise.
C18_NormalizedTargets ==
    call = "prepare" =>
        /\ engine.super_square.master_frequency =
              clamp(Q(args.frequency, osc_rate), MIN_FREQUENCY, MAX_FREQUENCY)
        /\ engine.super_square.slave_frequency =
              clamp(QDiv(args.slave_frequency, Q(osc_rate, 1)),
                    MIN_FREQUENCY, MAX_FREQUENCY)

\* C19 as stated: the slave ratio is 0.51 + 0.98 * shape in [0.51, 1.0) for
\* shape below 0.5, and for shape in [0.5, 1] it grows from 1 at shape 0.5
\* up to 17 at shape 1.
C19_SlaveRatioTo17 ==
    call = "prepare" =>
        /\ QLt(args.shape, Half) =>
              /\ SlaveRatio = QAdd(Q(51, 100), QMul(Q(98, 100), args.shape))
              /\ QLeq(Q(51, 100), SlaveRatio)
              /\ QLt(SlaveRatio, ROne)
        /\ QGeq(args.shape, Half) =>
              /\ QLeq(ROne, SlaveRatio)
              /\ QLeq(SlaveRatio, Q(17, 1))
              /\ args.shape = Half => SlaveRatio = ROne
              /\ args.shape = ROne => SlaveRatio = Q(17, 1)

\* C19 as amended: the slave ratio is 0.51 + 0.98 * shape in [0.51, 1.0) for
\* shape below 0.5, and for shape in [0.5, 1] it is
\* 1 + 16 * (shape - 0.5)^2, from 1 at shape 0.5 up to 5 at shape 1.
C19_SlaveRatioTo5 ==
    call = "prepare" =>
        /\ QLt(args.shape, Half) =>
              /\ SlaveRatio = QAdd(Q(51, 100), QMul(Q(98, 100), args.shape))
              /\ QLeq(Q(51, 100), SlaveRatio)
              /\ QLt(SlaveRatio, ROne)
        /\ QGeq(args.shape, Half) =>
              /\ SlaveRatio =
                    QAdd(ROne, QMul(Q(16, 1), QMul(QSub(args.shape, Half),
                                                   QSub(args.shape, Half))))
              /\ QLeq(ROne, SlaveRatio)
              /\ QLeq(SlaveRatio, Q(5, 1))
              /\ args.shape = Half => SlaveRatio = ROne
              /\ args.shape = ROne => SlaveRatio = Q(5, 1)

\* prepare has been called with shape 1 and gave the slave five times the
\* master frequency
C19_Witness ==
    /\ call = "prepare"
    /\ args.shape = ROne
    /\ args.slave_frequency = Q(5 * args.frequency, 1)

RECURSIVE Pow2(_)
Pow2(n) == IF n = 0 THEN 1 ELSE 2 * Pow2(n - 1)

\* the registration moved up by shift slots, with zeros in the slots below
Shifted(unshifted, shift) ==
    [i \in 1 .. 7 |-> IF i - shift >= 1 THEN unshifted[i - shift] ELSE RZero]

\* C20: StringSynthOscillator::prepare_block halves the phase delta while
\* it exceeds 0.5, adding 2 to the shift per halving; with a shift of 8 or
\* more it returns without changing any oscillator state; with a smaller
\* shift the registration is shifted by `shift` slots with zeros filled in
\* and the frequency target is the halved phase delta clamped to
\* [0.000001, 0.25].
C20_OverRangeSkip ==
    [][call' = "prepare_block" =>
         LET o == engine'.string_synth
             shift == args'.shift
             r == Shifted(args'.unshifted, shift)
             gain == args'.gain
         IN  /\ shift % 2 = 0
             /\ args'.phase_delta =
                   Q(args'.frequency, osc_rate * Pow2(shift \div 2))
             /\ QLeq(args'.phase_delta, Half)
             /\ shift > 0 => QLt(Half, QMul(Q(2, 1), args'.phase_delta))
             /\ shift >= 8 => o = engine.string_synth
             /\ shift < 8 =>
                   /\ o.frequency =
                         clamp(args'.phase_delta, MIN_FREQUENCY, MAX_FREQUENCY)
                   /\ o.saw_8_gain =
                         QMul(gain, QAdd(r[1], QMul(Q(2, 1), r[2])))
                   /\ o.saw_4_gain =
                         QMul(gain, QAdd(QSub(r[3], r[2]),
                                         QMul(Q(2, 1), r[4])))
                   /\ o.saw_2_gain =
                         QMul(gain, QAdd(QSub(r[5], r[4]),
                                         QMul(Q(2, 1), r[6])))
                   /\ o.saw_1_gain = QMul(gain, QSub(r[7], r[6]))
                   /\ o.phase = engine.string_synth.phase
                   /\ o.segment = engine.string_synth.segment
                   /\ o.next_sample = engine.string_synth.next_sample]_vars

\* a prepare_block with a shift of 8 has been skipped on an oscillator that
\* had been prepared and run before
C20_Witness ==
    /\ call = "prepare_block"
    /\ args.shift >= 8
    /\ calls > 0
    /\ engine.string_synth.frequency # RZero

\* the field of the engine that holds a variant
VariantOf(type) ==
    CASE type = "SuperSquare" -> "super_square"
      [] type = "VariableSaw" -> "variable_saw"
      [] type = "StringSynth" -> "string_synth"

\* C14: OscillatorEngine::process and OscillatorEngine::prepare_block
\* modify only the variant named by `selected`; the state of the two other
\* variants is unchanged, and changing `selected` resets no variant, so a
\* variant resumes from the state it had when it was last active.
C14_EngineIsolation ==
    [][call' \in {"prepare_block", "process"} =>
         /\ \A type \in OscillatorTypes \ {engine'.selected} :
               engine'[VariantOf(type)] = engine[VariantOf(type)]
         /\ call' = "process" => engine'.selected = engine.selected]_vars

\* the variable-saw variant is selected and has run while the super-square
\* variant, which ran before, keeps the phase it had reached
C14_Witness ==
    /\ call = "process"
    /\ engine.selected = "VariableSaw"
    /\ engine.variable_saw.phase # RZero
    /\ engine.super_square.master_phase # RZero

----------------------------------------------------------------------------
(* Claims about the controls *)

\* a..b is a range of an array of n entries
SliceWithin(range, n) == 0 <= range[1] /\ range[1] <= range[2] /\ range[2] <= n

\* the octave shift StringSynthOscillator::prepare_block reaches for the
\* arguments of the last call
LastShift == OctaveShift(QDiv(Q(args.frequency, 1), Q(osc_rate, 1)), 0).shift

\* C21: for every oscillator type, shape and morph in [0, 1] with the end
\* points, frequency > 0 and sample_rate > 0, prepare_block does not panic:
\* the registration-table index is within 0 .. 10, the bounds of the
\* pulse-width clamps are ordered, and the slice ranges of the registration
\* shift are within the 7-entry arrays and of equal length.
C21_NoFaultFromControls ==
    call = "prepare_block" =>
        /\ engine.selected = "StringSynth" =>
              /\ registration_index(args.morph) \in 0 .. 10
              /\ registration_index(args.morph) + 1
                    \in DOMAIN REGISTRATION_TABLE
              /\ LastShift < 8 =>
                    LET r == RegistrationSlices(LastShift) IN
                    /\ SliceWithin(r.registration, 7)
                    /\ SliceWithin(r.unshifted, 7)
                    /\ r.registration[2] - r.registration[1]
                          = r.unshifted[2] - r.unshifted[1]
        /\ engine.selected = "VariableSaw" =>
              /\ QLeq(Q(5, 1000), ROne)
              /\ PwClamp(args.frequency, osc_rate).taken =>
                    QLeq(PwClamp(args.frequency, osc_rate).lower,
                         PwClamp(args.frequency, osc_rate).upper)

\* the string synth was prepared with morph = 1, shape = 0 and a shift of 6
C21_Witness ==
    /\ call = "prepare_block"
    /\ engine.selected = "StringSynth"
    /\ args.morph = ROne
    /\ args.shape = RZero
    /\ registration_index(args.morph) = 10
    /\ LastShift = 6

----------------------------------------------------------------------------
(* Claims about the hard sync *)

\* x lies in [0, 1)
InUnit(x) == QLeq(RZero, x) /\ QLt(x, ROne)

\* the master phase of a process call before the wrap is taken off
MasterAdvanced(o) == QAdd(o.master_phase, o.master_frequency)

\* the call wraps the master phase
MasterWraps(o) == QGeq(MasterAdvanced(o), ROne)

\* the time of the reset inside the sample, as a fraction of the sample
ResetTime(o) == QDiv(QSub(MasterAdvanced(o), ROne), o.master_frequency)

\* the slave phase at the reset instant
SlaveAtReset(o) ==
    QAdd(o.slave_phase,
         QMul(QSub(ROne, ResetTime(o)), o.slave_frequency))

\* the slave crosses 0.5 from low, or 1.0, before the reset instant
SlaveTransitionBeforeReset(o) ==
    \/ QGeq(SlaveAtReset(o), ROne)
    \/ ~o.high /\ QGeq(SlaveAtReset(o), Half)

\* the free-running slave phase after one sample
SlaveAdvanced(o) ==
    LET p == QAdd(o.slave_phase, o.slave_frequency)
    IN  IF QGeq(p, ROne) THEN QSub(p, ROne) ELSE p

\* both increments are in [MIN_FREQUENCY, MAX_FREQUENCY]
IncrementsInRange(o) ==
    /\ QLeq(MIN_FREQUENCY, o.master_frequency)
    /\ QLeq(o.master_frequency, MAX_FREQUENCY)
    /\ QLeq(MIN_FREQUENCY, o.slave_frequency)
    /\ QLeq(o.slave_frequency, MAX_FREQUENCY)

\* C22: in a SuperSquareOscillator::process call that wraps the master
\* phase, reset_time is in [0, 1), and on return the slave phase is
\* reset_time * slave_frequency and high is false, with or without a slave
\* transition in the reset window; the edge loop runs in such a call only if
\* a slave transition came before the reset instant, and it ends after at
\* most two rounds; without a master wrap the slave phase is not reset; for
\* increments in [0.000001, 0.25] both phases are in [0, 1) after the call.
C22_HardSyncReset ==
    [][call' = "process" =>
         LET o == engine.super_square
             n == engine'.super_square
             rounds == SuperSquare_process(o).rounds
         IN  /\ MasterWraps(o) =>
                   /\ InUnit(ResetTime(o))
                   /\ n.slave_phase = QMul(ResetTime(o), o.slave_frequency)
                   /\ n.high = FALSE
                   /\ rounds > 0 => SlaveTransitionBeforeReset(o)
             /\ rounds <= 2
             /\ ~MasterWraps(o) => n.slave_phase = SlaveAdvanced(o)
             /\ IncrementsInRange(o) =>
                   InUnit(n.master_phase) /\ InUnit(n.slave_phase)]_vars

\* the last call wrapped the master phase part-way through the sample and
\* the slave restarted low from a phase above 0, with a correction owed to
\* the next sample
C22_Witness ==
    /\ call = "process"
    /\ engine.super_square.master_phase # RZero
    /\ QLt(engine.super_square.master_phase,
           engine.super_square.master_frequency)
    /\ engine.super_square.slave_phase # RZero
    /\ QLt(engine.super_square.slave_phase,
           engine.super_square.slave_frequency)
    /\ ~engine.super_square.high
    /\ engine.super_square.next_sample # RZero

----------------------------------------------------------------------------
(* Claims about the edges of the variable saw *)

\* the phase delta of the voice
NotePhaseDelta == Q(args.frequency, osc_rate)

\* C23: after prepare_block with phase_delta = frequency / sample_rate
\* below 0.25 the stored pw is in [2 * phase_delta, 1 - 2 * phase_delta], and
\* it is 0.5 for a phase_delta of 0.25 or more; while process is called with
\* the frequency and the sample rate of the last prepare_block, a rising
\* edge and a wraparound edge are never crossed by two consecutive process
\* calls (one call crosses at most one of them), also when pw changes
\* between the calls.
C23_EdgeSeparation ==
    [][/\ call' = "prepare_block" =>
            IF QLt(NotePhaseDelta, Q(1, 4))
            THEN /\ QLeq(QMul(Q(2, 1), NotePhaseDelta),
                         engine'.variable_saw.pw)
                 /\ QLeq(engine'.variable_saw.pw,
                         QSub(ROne, QMul(Q(2, 1), NotePhaseDelta)))
            ELSE engine'.variable_saw.pw = Half
       /\ call' = "process" =>
            /\ ~(edge = "rise" /\ edge' = "wrap")
            /\ ~(edge = "wrap" /\ edge' = "rise")]_vars

----------------------------------------------------------------------------
(* Claims about the pitch of a voice *)

\* the distance from phase a to phase b of a phase that wraps at period
Advance(a, b, period) ==
    IF QLt(b, a) THEN QAdd(QSub(b, a), period) ELSE QSub(b, a)

\* the phase increment with which a process call took engine e to engine n
RenderedIncrement(e, n) ==
    CASE e.selected = "SuperSquare" ->
           Advance(e.super_square.master_phase, n.super_square.master_phase,
                   ROne)
      [] e.selected = "VariableSaw" ->
           Advance(e.variable_saw.phase, n.variable_saw.phase, ROne)
      [] e.selected = "StringSynth" ->
           Advance(e.string_synth.phase, n.string_synth.phase, Q(8, 1))

\* the phase increment prepare_block gives the selected variant for a
\* frequency
NoteIncrement(e, frequency, sr) ==
    CASE e.selected = "SuperSquare" ->
           SuperSquare_prepare(e.super_square, Half, Q(frequency, 1),
                               Q(sr, 1)).master_frequency
      [] e.selected = "VariableSaw" -> Q(frequency, sr)
      [] e.selected = "StringSynth" ->
           StringSynth_prepare_block(e.string_synth, REGISTRATION_TABLE[1],
                                     Half, Q(frequency, 1),
                                     Q(sr, 1)).frequency

\* C24: after a NoteOn dispatched at sample k of a block the triggered
\* voice renders sample k and the later samples of the block with the phase
\* increment of the new note, the target prepare_block sets for its
\* frequency, for every oscillator type.
C24_PitchAtNoteOn ==
    [][call' = "process" /\ args.triggered =>
         RenderedIncrement(engine, engine')
            = NoteIncrement(engine, args.frequency, osc_rate)]_vars

----------------------------------------------------------------------------
(* Claims about notes in the pool *)

\* C25: a NoteOff never starts a sound: every voice that is inactive
\* (envelope Idle) before a NoteOff is inactive after it, in every reachable
\* pool state, the new pool included, so its envelope keeps returning 0; a
\* NoteOff for a note that is not sounding changes no voice.
C25_NoteOffStartsNothing ==
    [][last'.op = "NoteOff" /\ dispatched' = dispatched + 1 =>
         /\ \A i \in Pool :
               ~Voice_is_active(voices[i]) => ~Voice_is_active(voices'[i])
         /\ (\A i \in Pool :
                Voice_is_active(voices[i])
                    => voices[i].midi_note_id # last'.note)
               => voices' = voices]_vars

\* C26: in every state reachable from the new pool by NoteOn events, NoteOff
\* events and rendered samples, no two active voices (envelope stage other
\* than Idle) have the same midi_note_id.
C26_OneVoicePerNote ==
    \A i, j \in Pool :
        (i # j /\ Voice_is_active(voices[i]) /\ Voice_is_active(voices[j]))
            => voices[i].midi_note_id # voices[j].midi_note_id

\* a NoteOn has re-triggered the voice that holds its note while another
\* voice is active and an inactive voice holds the same note number
C26_Witness ==
    /\ last.op = "NoteOn"
    /\ last.pass = 1
    /\ Voice_is_active(voices[last.victim])
    /\ \E j \in Pool \ {last.victim} : Voice_is_active(voices[j])
    /\ \E j \in Pool \ {last.victim} :
          /\ ~Voice_is_active(voices[j])
          /\ voices[j].midi_note_id = last.note

====
